---- MODULE Spec2Model ----
(***************************************************************************)
(* The imapc save/copy transaction core (lib-storage/index/imapc/          *)
(* imapc-save.c): one mailbox transaction with its lazily allocated save   *)
(* context, the temp spool, the APPEND / NOOP / UID COPY commands with     *)
(* their loop-spin sentinel, the APPENDUID / COPYUID parsers, the          *)
(* placeholder rows of the index transaction and commit_pre / commit_post  *)
(* / rollback.                                                             *)
(***************************************************************************)
EXTENDS Integers, Sequences, FiniteSets, TLC

(***************************************************************************)
(* Bounds of the model.                                                    *)
(***************************************************************************)
\* number of temp spools (successful begins) in one transaction
MaxSaves == 2
\* number of UID COPY commands submitted in one transaction
MaxCopies == 1
\* number of APPEND and UID COPY commands submitted in one transaction
MaxCmds == 2
\* messages in the transaction view before the transaction appends any
InitialMessages == 2

(***************************************************************************)
(* Program constants.                                                      *)
(***************************************************************************)
\* ctx->fd = -1: the save context holds no temp fd
NoFd == -1
\* sctx.ret = -2: the command is still pending
Pending == -2

NULL == "NULL"

(***************************************************************************)
(* Strings are sequences of one-character strings.                         *)
(***************************************************************************)
DigitChars == <<"0", "1", "2", "3", "4", "5", "6", "7", "8", "9">>

IsDigit(ch) == \E i \in 1..10 : DigitChars[i] = ch

DigitVal(ch) == (CHOOSE i \in 1..10 : DigitChars[i] = ch) - 1

RECURSIVE SplitAcc(_, _, _)
SplitAcc(str, cur, out) ==
    IF str = <<>> THEN Append(out, cur)
    ELSE IF Head(str) = " " THEN SplitAcc(Tail(str), <<>>, Append(out, cur))
    ELSE SplitAcc(Tail(str), Append(cur, Head(str)), out)

\* t_strsplit(data, " "): every separator ends a token (tokens may be
\* empty); the empty string has no tokens.
t_strsplit(str) == IF str = <<>> THEN <<>> ELSE SplitAcc(str, <<>>, <<>>)

str_array_length(args) == Len(args)

RECURSIVE DigitsValue(_, _)
DigitsValue(tok, acc) ==
    IF tok = <<>> THEN acc
    ELSE DigitsValue(Tail(tok), acc * 10 + DigitVal(Head(tok)))

\* str_to_uint32(): 0 and the number for a non-empty string of decimal
\* digits, -1 otherwise.  The tokens of this model have fewer than ten
\* digits, so none exceeds 2^32 - 1.
str_to_uint32(tok) ==
    IF tok # <<>> /\ \A i \in 1..Len(tok) : IsDigit(tok[i])
    THEN [ret |-> 0, num |-> DigitsValue(tok, 0)]
    ELSE [ret |-> -1, num |-> 0]

\* strcasecmp(key, want) == 0 for the response-text keys of this model
UpperKey(key) ==
    CASE key = "appenduid" -> "APPENDUID"
      [] key = "copyuid" -> "COPYUID"
      [] OTHER -> key

strcasecmp_eq(key, want) == UpperKey(key) = UpperKey(want)

(***************************************************************************)
(* Replies of the server, as the client hands them to a callback.          *)
(***************************************************************************)
Join(a, b) == a \o <<" ">> \o b

\* a UID-validity of 0 is what the save context reads as "not yet learned"
ValidityTokens == {<<"0">>, <<"7">>, <<"8">>, <<"x">>}

\* destination UIDs are non-zero; "1:2" is a range, not a single UID
UidTokens == {<<"1">>, <<"2">>, <<"1", ":", "2">>}

\* <uidvalidity> <dest uid>, and the texts with another number of tokens
AppendUidTexts == {Join(v, u) : v \in ValidityTokens, u \in UidTokens}

\* <uidvalidity> <source uid> <dest uid>
CopyUidTexts ==
    {Join(Join(v, <<"5">>), u) : v \in ValidityTokens, u \in UidTokens}

OkReplies ==
    {[state |-> "OK", resp_text_key |-> NULL, resp_text_value |-> <<>>]}
    \cup [state : {"OK"},
          resp_text_key : {"APPENDUID"},
          resp_text_value : AppendUidTexts
                            \cup {<<"7">>, Join(Join(<<"7">>, <<"5">>), <<"1">>)}]
    \cup [state : {"OK"},
          resp_text_key : {"appenduid"},
          resp_text_value : {Join(<<"7">>, <<"1">>)}]
    \cup [state : {"OK"},
          resp_text_key : {"COPYUID"},
          resp_text_value : CopyUidTexts
                            \cup {<<"7">>, Join(<<"7">>, <<"1">>)}]
    \cup [state : {"OK"},
          resp_text_key : {"copyuid"},
          resp_text_value : {Join(Join(<<"7">>, <<"5">>), <<"1">>)}]

\* "BAD" stands for every state that is neither OK nor NO
FailReplies ==
    [state : {"NO", "BAD"},
     resp_text_key : {NULL},
     resp_text_value : {<<>>}]

Replies == OkReplies \cup FailReplies

\* the reply to a NOOP carries no response code
NoopReplies == {r \in Replies : r.resp_text_key = NULL}

NoReply == [state |-> "NONE", resp_text_key |-> NULL, resp_text_value |-> <<>>]

(***************************************************************************)
(* The saved-UID set: a sorted array of coalesced ranges <<uid1, uid2>>.   *)
(***************************************************************************)
RangeElems(arr) == UNION {arr[i][1]..arr[i][2] : i \in DOMAIN arr}

SetMin(S) == CHOOSE x \in S : \A y \in S : x <= y

RunEnd(S, lo) == CHOOSE h \in S : (lo..h) \subseteq S /\ (h + 1) \notin S /\ h >= lo

RECURSIVE RangesOf(_)
RangesOf(S) ==
    IF S = {} THEN <<>>
    ELSE LET lo == SetMin(S)
             hi == RunEnd(S, lo)
         IN <<<<lo, hi>>>> \o RangesOf(S \ (lo..hi))

seq_range_array_add(arr, seq) == RangesOf(RangeElems(arr) \cup {seq})

(***************************************************************************)
(* Collaborators of the save context.                                      *)
(***************************************************************************)
\* imapc_storage_client_handle_auth_failure(): reports the client's
\* auth-failed state; when it reports TRUE the auth error is the storage
\* error.
handle_auth_failure(auth, error) ==
    [ret |-> auth, error |-> IF auth THEN "auth" ELSE error]

\* i_close_fd_path() on a temp fd, by who owned it: closing the fd of the
\* context closes it; closing one the destination mail's stream owns
\* leaves that stream a closed fd; closing a closed one closes it again
i_close_fd_path(owner) ==
    CASE owner = "ctx" -> "closed"
      [] owner = "mail" -> "closed_under_mail"
      [] OTHER -> "closed_twice"

\* mail_index_view_get_messages_count() of the transaction view: the
\* messages of the mailbox followed by the rows the transaction appended
mail_index_view_get_messages_count(tr) == InitialMessages + Len(tr.appends)

\* mail_index_append(): a new last row carrying uid; its sequence is returned
mail_index_append(tr, uid) ==
    [trans |-> [tr EXCEPT !.appends = Append(@, uid)],
     seq |-> InitialMessages + Len(tr.appends) + 1]

\* mail_index_expunge(): the transaction records an expunge of seq
mail_index_expunge(tr, seq) == [tr EXCEPT !.expunges = Append(@, seq)]

(***************************************************************************)
(* struct imapc_save_context after imapc_save_alloc() created it.          *)
(***************************************************************************)
NewCtx ==
    [fd |-> NoFd, temp_path |-> NULL, input |-> NULL, output |-> NULL,
     dest_uid_validity |-> 0, dest_saved_uids |-> <<>>, uids_created |-> FALSE,
     save_count |-> 0, failed |-> FALSE, finished |-> FALSE]

NewMail ==
    [seq |-> 0, stream_fd |-> NoFd, no_caching |-> FALSE,
     forced_no_caching |-> FALSE, header_fetched |-> FALSE,
     body_fetched |-> FALSE]

(***************************************************************************)
(* imapc_save_begin(): w is [ctx, trans, fds, mail, error], error being    *)
(* the storage error the entry point has set so far; auth is the oracle's  *)
(* state, temp_ok whether imapc_client_create_temp_fd() succeeds.          *)
(***************************************************************************)
\* a faulty begin: a successful begin starts the new message with failed
\* cleared
save_begin_clears_failed(w, auth, temp_ok) ==
    LET oracle == handle_auth_failure(auth, w.error)
        newfd == Len(w.fds) + 1
    IN  IF oracle.ret
        THEN [w |-> [w EXCEPT !.error = oracle.error], ret |-> -1]
        ELSE IF ~temp_ok
        THEN [w |-> [w EXCEPT !.ctx.failed = TRUE, !.error = "critical"],
              ret |-> -1]
        ELSE [w |-> [w EXCEPT !.ctx.fd = newfd,
                              !.ctx.finished = FALSE,
                              !.ctx.failed = FALSE,
                              !.ctx.temp_path = "path",
                              !.ctx.input = "crlf",
                              !.ctx.output = "file",
                              !.fds = Append(@, "ctx")],
              ret |-> 0]

imapc_save_begin(w, auth, temp_ok) ==
    LET oracle == handle_auth_failure(auth, w.error)
        newfd == Len(w.fds) + 1
    IN  IF oracle.ret
        THEN [w |-> [w EXCEPT !.error = oracle.error], ret |-> -1]
        ELSE IF ~temp_ok
        THEN [w |-> [w EXCEPT !.ctx.failed = TRUE, !.error = "critical"],
              ret |-> -1]
        ELSE [w |-> [w EXCEPT !.ctx.fd = newfd,
                              !.ctx.finished = FALSE,
                              !.ctx.temp_path = "path",
                              !.ctx.input = "crlf",
                              !.ctx.output = "file",
                              !.fds = Append(@, "ctx")],
              ret |-> 0]

(***************************************************************************)
(* imapc_save_continue(): pump_ok is whether index_storage_save_continue() *)
(* succeeds.                                                               *)
(***************************************************************************)
\* a faulty continue: failed does not short-circuit the pump
save_continue_ignores_failed(c, pump_ok) ==
    IF ~pump_ok
    THEN [ctx |-> [c EXCEPT !.failed = TRUE], ret |-> -1, pumped |-> TRUE]
    ELSE [ctx |-> c, ret |-> 0, pumped |-> TRUE]

imapc_save_continue(c, pump_ok) ==
    IF c.failed THEN [ctx |-> c, ret |-> -1, pumped |-> FALSE]
    ELSE IF ~pump_ok
    THEN [ctx |-> [c EXCEPT !.failed = TRUE], ret |-> -1, pumped |-> TRUE]
    ELSE [ctx |-> c, ret |-> 0, pumped |-> TRUE]

(***************************************************************************)
(* imapc_save_appenduid() and imapc_save_copyuid(): the parsers of the     *)
(* response-text codes; uid is *uid_r.                                     *)
(***************************************************************************)
\* a faulty APPENDUID parser: the validity of the reply is recorded whatever
\* the context had learned before
save_appenduid_rewrites_validity(c, reply) ==
    LET args == t_strsplit(reply.resp_text_value)
    IN  IF str_array_length(args) # 2 THEN [ctx |-> c, uid |-> 0]
        ELSE LET v == str_to_uint32(args[1])
                 u == str_to_uint32(args[2])
                 c1 == [c EXCEPT !.dest_uid_validity = v.num]
             IN  IF v.ret < 0 THEN [ctx |-> c, uid |-> 0]
                 ELSE IF u.ret = 0
                 THEN [ctx |-> [c1 EXCEPT
                                  !.dest_saved_uids = seq_range_array_add(@, u.num),
                                  !.uids_created = TRUE],
                       uid |-> u.num]
                 ELSE [ctx |-> c1, uid |-> 0]

imapc_save_appenduid(c, reply) ==
    LET args == t_strsplit(reply.resp_text_value)
    IN  IF str_array_length(args) # 2 THEN [ctx |-> c, uid |-> 0]
        ELSE LET v == str_to_uint32(args[1])
                 u == str_to_uint32(args[2])
                 c1 == IF c.dest_uid_validity = 0
                       THEN [c EXCEPT !.dest_uid_validity = v.num]
                       ELSE c
             IN  IF v.ret < 0 THEN [ctx |-> c, uid |-> 0]
                 ELSE IF c.dest_uid_validity # 0 /\ c.dest_uid_validity # v.num
                 THEN [ctx |-> c, uid |-> 0]
                 ELSE IF u.ret = 0
                 THEN [ctx |-> [c1 EXCEPT
                                  !.dest_saved_uids = seq_range_array_add(@, u.num),
                                  !.uids_created = TRUE],
                       uid |-> u.num]
                 ELSE [ctx |-> c1, uid |-> 0]

\* a faulty COPYUID parser: the source UID is taken for the destination UID
save_copyuid_takes_source_uid(c, reply) ==
    LET args == t_strsplit(reply.resp_text_value)
    IN  IF str_array_length(args) # 3 THEN [ctx |-> c, uid |-> 0]
        ELSE LET v == str_to_uint32(args[1])
                 u == str_to_uint32(args[2])
                 c1 == IF c.dest_uid_validity = 0
                       THEN [c EXCEPT !.dest_uid_validity = v.num]
                       ELSE c
             IN  IF v.ret < 0 THEN [ctx |-> c, uid |-> 0]
                 ELSE IF c.dest_uid_validity # 0 /\ c.dest_uid_validity # v.num
                 THEN [ctx |-> c, uid |-> 0]
                 ELSE IF u.ret = 0
                 THEN [ctx |-> [c1 EXCEPT
                                  !.dest_saved_uids = seq_range_array_add(@, u.num),
                                  !.uids_created = TRUE],
                       uid |-> u.num]
                 ELSE [ctx |-> c1, uid |-> 0]

imapc_save_copyuid(c, reply) ==
    LET args == t_strsplit(reply.resp_text_value)
    IN  IF str_array_length(args) # 3 THEN [ctx |-> c, uid |-> 0]
        ELSE LET v == str_to_uint32(args[1])
                 u == str_to_uint32(args[3])
                 c1 == IF c.dest_uid_validity = 0
                       THEN [c EXCEPT !.dest_uid_validity = v.num]
                       ELSE c
             IN  IF v.ret < 0 THEN [ctx |-> c, uid |-> 0]
                 ELSE IF c.dest_uid_validity # 0 /\ c.dest_uid_validity # v.num
                 THEN [ctx |-> c, uid |-> 0]
                 ELSE IF u.ret = 0
                 THEN [ctx |-> [c1 EXCEPT
                                  !.dest_saved_uids = seq_range_array_add(@, u.num),
                                  !.uids_created = TRUE],
                       uid |-> u.num]
                 ELSE [ctx |-> c1, uid |-> 0]

(***************************************************************************)
(* imapc_save_add_to_index(): the placeholder row; a temp fd still held by *)
(* the context passes to the destination mail's autoclose stream.          *)
(***************************************************************************)
\* a faulty handoff: the stream takes the fd, and the context keeps it too
save_add_to_index_keeps_fd(w, uid) ==
    LET app == mail_index_append(w.trans, uid)
        m1 == [w.mail EXCEPT !.seq = app.seq,
                             !.no_caching = TRUE,
                             !.forced_no_caching = TRUE]
        w1 == [w EXCEPT !.trans = app.trans, !.mail = m1]
        w2 == IF w.ctx.fd # NoFd
              THEN [w1 EXCEPT !.mail.stream_fd = w.ctx.fd,
                              !.mail.header_fetched = TRUE,
                              !.mail.body_fetched = TRUE,
                              !.fds[w.ctx.fd] = "mail"]
              ELSE w1
    IN  [w2 EXCEPT !.ctx.save_count = @ + 1]

imapc_save_add_to_index(w, uid) ==
    LET app == mail_index_append(w.trans, uid)
        m1 == [w.mail EXCEPT !.seq = app.seq,
                             !.no_caching = TRUE,
                             !.forced_no_caching = TRUE]
        w1 == [w EXCEPT !.trans = app.trans, !.mail = m1]
        w2 == IF w.ctx.fd # NoFd
              THEN [w1 EXCEPT !.mail.stream_fd = w.ctx.fd,
                              !.mail.header_fetched = TRUE,
                              !.mail.body_fetched = TRUE,
                              !.fds[w.ctx.fd] = "mail",
                              !.ctx.fd = NoFd]
              ELSE w1
    IN  [w2 EXCEPT !.ctx.save_count = @ + 1]

(***************************************************************************)
(* imapc_save_callback(), imapc_save_noop_callback() and                   *)
(* imapc_copy_callback(): ret is what the callback writes to sctx.ret, err *)
(* the error it derives from the reply.                                    *)
(***************************************************************************)
imapc_save_callback(w, reply, auth) ==
    IF reply.state = "OK"
    THEN LET p == IF reply.resp_text_key # NULL
                     /\ strcasecmp_eq(reply.resp_text_key, "APPENDUID")
                  THEN imapc_save_appenduid(w.ctx, reply)
                  ELSE [ctx |-> w.ctx, uid |-> 0]
         IN  [w |-> imapc_save_add_to_index([w EXCEPT !.ctx = p.ctx], p.uid),
              ret |-> 0, err |-> "none"]
    ELSE LET oracle == handle_auth_failure(auth, w.error)
         IN  IF oracle.ret
             THEN [w |-> [w EXCEPT !.error = oracle.error],
                   ret |-> -1, err |-> "none"]
             ELSE IF reply.state = "NO"
             THEN [w |-> [w EXCEPT !.error = "params"],
                   ret |-> -1, err |-> "params"]
             ELSE [w |-> [w EXCEPT !.error = "critical"],
                   ret |-> -1, err |-> "critical"]

\* a faulty NOOP callback: only an OK reply ends the wait
save_noop_callback_waits_for_ok(reply) ==
    IF reply.state = "OK" THEN 0 ELSE Pending

imapc_save_noop_callback(reply) == 0

imapc_copy_callback(w, reply) ==
    IF reply.state = "OK"
    THEN LET p == IF reply.resp_text_key # NULL
                     /\ strcasecmp_eq(reply.resp_text_key, "COPYUID")
                  THEN imapc_save_copyuid(w.ctx, reply)
                  ELSE [ctx |-> w.ctx, uid |-> 0]
         IN  [w |-> imapc_save_add_to_index([w EXCEPT !.ctx = p.ctx], p.uid),
              ret |-> 0, err |-> "none"]
    ELSE IF reply.state = "NO"
    THEN [w |-> [w EXCEPT !.error = "params"], ret |-> -1, err |-> "params"]
    ELSE [w |-> [w EXCEPT !.error = "critical"], ret |-> -1, err |-> "critical"]

(***************************************************************************)
(* imapc_save_append(): the condition under which the NOOP follows.        *)
(***************************************************************************)
\* a faulty condition: the NOOP follows even when an EXISTS has arrived
save_append_noop_ignores_exists(ret, selected, exists_received) ==
    ret = 0 /\ selected

imapc_save_append_needs_noop(ret, selected, exists_received) ==
    ret = 0 /\ selected /\ ~exists_received

(***************************************************************************)
(* imapc_save_finish(), in its three parts: the flush of the spool, the    *)
(* failure of the APPEND, the release.  flush_ok is whether                *)
(* o_stream_finish() succeeds; its failure sets a storage error, mapped    *)
(* from errno or critical.                                                 *)
(***************************************************************************)
imapc_save_finish_flush(w, flush_ok) ==
    LET w1 == [w EXCEPT !.ctx.finished = TRUE]
    IN  IF ~w1.ctx.failed /\ ~flush_ok
        THEN [w1 EXCEPT !.ctx.failed = TRUE, !.error = "write"]
        ELSE w1

\* a faulty finish: the failure of the APPEND is not recorded in failed
save_finish_ignores_append_ret(c, append_ret) == c

imapc_save_finish_append_ret(c, append_ret) ==
    IF append_ret < 0 THEN [c EXCEPT !.failed = TRUE] ELSE c

\* a faulty release: the input stream is kept
save_finish_release_keeps_input(w) ==
    LET w1 == [w EXCEPT !.ctx.output = NULL, !.ctx.temp_path = NULL]
        w2 == IF w.ctx.fd # NoFd
              THEN [w1 EXCEPT !.fds[w.ctx.fd] = i_close_fd_path(@),
                              !.ctx.fd = NoFd]
              ELSE w1
    IN  [w |-> w2, ret |-> IF w2.ctx.failed THEN -1 ELSE 0]

imapc_save_finish_release(w) ==
    LET w1 == [w EXCEPT !.ctx.output = NULL,
                        !.ctx.input = NULL,
                        !.ctx.temp_path = NULL]
        w2 == IF w.ctx.fd # NoFd
              THEN [w1 EXCEPT !.fds[w.ctx.fd] = i_close_fd_path(@),
                              !.ctx.fd = NoFd]
              ELSE w1
    IN  [w |-> w2, ret |-> IF w2.ctx.failed THEN -1 ELSE 0]

(***************************************************************************)
(* imapc_save_cancel(): failed is set, so imapc_save_finish() neither      *)
(* flushes nor appends.                                                    *)
(***************************************************************************)
\* a faulty cancel: failed is not set before finish runs
save_cancel_without_failed(w) ==
    imapc_save_finish_release(imapc_save_finish_flush(w, TRUE)).w

imapc_save_cancel(w) ==
    imapc_save_finish_release(
        imapc_save_finish_flush([w EXCEPT !.ctx.failed = TRUE], TRUE)).w

(***************************************************************************)
(* imapc_transaction_save_commit_pre()                                     *)
(***************************************************************************)
RECURSIVE ExpungeLoop(_, _, _, _)
ExpungeLoop(tr, last_seq, i, save_count) ==
    IF i < save_count
    THEN ExpungeLoop(mail_index_expunge(tr, last_seq - i), last_seq, i + 1,
                     save_count)
    ELSE tr

\* a faulty commit_pre: the placeholder rows are expunged first to last
save_commit_pre_ascending(c, tr, ch) ==
    LET last_seq == mail_index_view_get_messages_count(tr)
        n == c.save_count
    IN  [trans |-> [tr EXCEPT !.expunges =
                        @ \o [i \in 1..n |-> last_seq - n + i]],
         changes |-> IF c.uids_created
                     THEN [uid_validity |-> c.dest_uid_validity,
                           saved_uids |-> ch.saved_uids \o c.dest_saved_uids]
                     ELSE ch]

\* a faulty commit_pre: the saved UIDs replace what the changes held
save_commit_pre_replaces(c, tr, ch) ==
    LET last_seq == mail_index_view_get_messages_count(tr)
    IN  [trans |-> ExpungeLoop(tr, last_seq, 0, c.save_count),
         changes |-> IF c.uids_created
                     THEN [uid_validity |-> c.dest_uid_validity,
                           saved_uids |-> c.dest_saved_uids]
                     ELSE ch]

imapc_transaction_save_commit_pre(c, tr, ch) ==
    LET last_seq == mail_index_view_get_messages_count(tr)
    IN  [trans |-> ExpungeLoop(tr, last_seq, 0, c.save_count),
         changes |-> IF c.uids_created
                     THEN [uid_validity |-> c.dest_uid_validity,
                           saved_uids |-> ch.saved_uids \o c.dest_saved_uids]
                     ELSE ch]

(***************************************************************************)
(* imapc_transaction_save_rollback(), which imapc_transaction_save_        *)
(* commit_post() calls too.                                                *)
(***************************************************************************)
\* a faulty rollback: an unfinished save is not cancelled
save_rollback_without_cancel(w) ==
    [w EXCEPT !.ctx.dest_saved_uids = <<>>, !.ctx.uids_created = FALSE]

imapc_transaction_save_rollback(w) ==
    LET w1 == IF ~w.ctx.finished THEN imapc_save_cancel(w) ELSE w
    IN  [w1 EXCEPT !.ctx.dest_saved_uids = <<>>, !.ctx.uids_created = FALSE]

(***************************************************************************)
(* imapc_copy() on one storage: whether the source can be copied, and the  *)
(* two ways it returns.                                                    *)
(***************************************************************************)
\* a faulty test of the source: only the expunged flag of the mail is read
copy_source_gone_ignores_map(expunged, mapped) == expunged

imapc_copy_source_gone(expunged, mapped) == expunged \/ ~mapped

imapc_copy_expunged(w) ==
    [w EXCEPT !.error = "expunged", !.ctx.finished = TRUE]

imapc_copy_return(c) == [c EXCEPT !.finished = TRUE]

(***************************************************************************)
(* The state.                                                              *)
(***************************************************************************)
VARIABLES
    t_save_ctx,       \* t->save_ctx: "none", "live" or "freed"
    ctx,              \* struct imapc_save_context
    trans,            \* the index transaction: rows appended, expunges issued
    fds,              \* the temp fds created so far, each by its owner:
                      \* "ctx", "mail", or "closed" once it is closed
    mail,             \* the destination mail
    changes,          \* the transaction's mail_transaction_commit_changes
    changes_before,   \* what they held when commit_pre was entered
    exists_received,  \* ctx->mbox->exists_received
    selected,         \* ctx->mbox->selected, while an APPEND is running
    auth_failed,      \* what the auth-failure oracle reports
    pc,               \* "idle", or the loop that spins: "append", "noop", "copy"
    sctx_ret,         \* sctx.ret of the spinning entry point
    cmds,             \* APPEND and UID COPY commands submitted
    precommit,        \* commit_pre ran
    last,             \* the entry point last called: what it returned, why,
                      \* and the storage error it set
    cb,               \* the callback that fired in the spinning loop: the
                      \* command, the reply's state and response code, the
                      \* error derived, what the oracle reported
    seen,             \* of the OK replies to APPEND and UID COPY so far:
                      \* their number, the UID-validity first observed in a
                      \* response code (-1: none yet), the UIDs of the codes
                      \* carrying that validity, and whether every reply
                      \* was an APPEND reply with an APPENDUID code
    exists_seen       \* an EXISTS arrived since the APPEND was issued

vars == <<t_save_ctx, ctx, trans, fds, mail, changes, changes_before,
          exists_received,
          selected, auth_failed, pc, sctx_ret, cmds, precommit, last, cb, seen,
          exists_seen>>

\* the state an entry point works on; error is the storage error it set
World(error) == [ctx |-> ctx, trans |-> trans, fds |-> fds, mail |-> mail,
                 error |-> error]

Put(w) ==
    /\ ctx' = w.ctx
    /\ trans' = w.trans
    /\ fds' = w.fds
    /\ mail' = w.mail

Last(op, ret, cause, error) ==
    [op |-> op, ret |-> ret, cause |-> cause, error |-> error]

\* what an OK reply to cmd carries: the response code with both numbers,
\* when the key is the command's and the text has its token count; no_uid
\* tells the code whose UID-validity is a number and whose UID is not
ReplyCode(cmd, reply) ==
    LET args == t_strsplit(reply.resp_text_value)
        key == IF cmd = "APPEND" THEN "APPENDUID" ELSE "COPYUID"
        n == IF cmd = "APPEND" THEN 2 ELSE 3
        shaped == /\ reply.resp_text_key # NULL
                  /\ UpperKey(reply.resp_text_key) = key
                  /\ Len(args) = n
                  /\ str_to_uint32(args[1]).ret = 0
    IN  IF shaped /\ str_to_uint32(args[n]).ret = 0
        THEN [code |-> TRUE, no_uid |-> FALSE,
              validity |-> str_to_uint32(args[1]).num,
              uid |-> str_to_uint32(args[n]).num]
        ELSE [code |-> FALSE, no_uid |-> shaped, validity |-> 0, uid |-> 0]

NoCb == [cmd |-> "NONE", state |-> "NONE", err |-> "none", auth |-> FALSE,
         code |-> ReplyCode("NONE", NoReply)]

Observe(cmd, reply) ==
    LET rc == ReplyCode(cmd, reply)
    IN  [ok |-> seen.ok + 1,
         first |-> IF rc.code /\ seen.first = -1
                   THEN rc.validity ELSE seen.first,
         uids |-> IF rc.code /\ seen.first \in {-1, rc.validity}
                  THEN seen.uids \cup {rc.uid} ELSE seen.uids,
         coded_only |-> seen.coded_only /\ rc.code /\ cmd = "APPEND"]

\* the changes of a transaction that has none yet, and what the caller may
\* have attached to the transaction when it commits
NoChanges == [uid_validity |-> 0, saved_uids |-> <<>>]

PriorChanges == {NoChanges, [uid_validity |-> 3, saved_uids |-> <<<<9, 9>>>>]}

FailCause(cmd, reply) ==
    IF reply.state = "OK" THEN "none"
    ELSE IF reply.state = "NO" THEN cmd \o "_rejected" ELSE cmd \o "_fatal"

Init ==
    /\ t_save_ctx = "none"
    /\ ctx = NewCtx
    /\ trans = [appends |-> <<>>, expunges |-> <<>>]
    /\ fds = <<>>
    /\ mail = NewMail
    /\ changes = NoChanges
    /\ changes_before = NoChanges
    /\ exists_received = FALSE
    /\ selected = FALSE
    /\ auth_failed = FALSE
    /\ pc = "idle"
    /\ sctx_ret = 0
    /\ cmds = [append |-> 0, copy |-> 0]
    /\ precommit = FALSE
    /\ last = Last("none", 0, "none", "none")
    /\ cb = NoCb
    /\ seen = [ok |-> 0, first |-> -1, uids |-> {}, coded_only |-> TRUE]
    /\ exists_seen = FALSE

\* the caller may enter the save API
Callable == t_save_ctx = "live" /\ pc = "idle" /\ ~precommit

(***************************************************************************)
(* imapc_save_alloc()                                                      *)
(***************************************************************************)
Alloc ==
    /\ t_save_ctx \in {"none", "live"}
    /\ pc = "idle" /\ ~precommit
    /\ t_save_ctx' = "live"
    /\ ctx' = IF t_save_ctx = "none" THEN NewCtx ELSE ctx
    /\ UNCHANGED <<trans, fds, mail, changes, changes_before, exists_received, selected,
                   auth_failed, pc, sctx_ret, cmds, precommit, last, cb, seen,
                   exists_seen>>

(***************************************************************************)
(* imapc_save_begin(); i_assert(ctx->fd == -1)                             *)
(***************************************************************************)
Begin(temp_ok) ==
    /\ Callable
    /\ ctx.fd = NoFd
    /\ temp_ok => Len(fds) < MaxSaves
    /\ LET r == imapc_save_begin(World("none"), auth_failed, temp_ok)
       IN  /\ Put(r.w)
           /\ last' = Last("begin", r.ret,
                           IF r.ret = 0 THEN "none"
                           ELSE IF auth_failed THEN "auth" ELSE "temp_fd",
                           r.w.error)
    /\ UNCHANGED <<t_save_ctx, changes, changes_before, exists_received, selected, auth_failed, pc,
                   sctx_ret, cmds, precommit, cb, seen, exists_seen>>

(***************************************************************************)
(* imapc_save_continue()                                                   *)
(***************************************************************************)
Continue(pump_ok) ==
    /\ Callable
    /\ ctx.failed \/ ctx.input # NULL
    /\ LET r == imapc_save_continue(ctx, pump_ok)
       IN  /\ ctx' = r.ctx
           /\ last' = Last("continue", r.ret,
                           IF r.ret = 0 THEN "none"
                           ELSE IF r.pumped THEN "pump" ELSE "failed_before",
                           "none")
    /\ UNCHANGED <<t_save_ctx, trans, fds, mail, changes, changes_before, exists_received, selected,
                   auth_failed, pc, sctx_ret, cmds, precommit, cb, seen,
                   exists_seen>>

(***************************************************************************)
(* imapc_save_finish(): up to the submission of the APPEND by              *)
(* imapc_save_append(), or to its return when failed is set.               *)
(***************************************************************************)
Finish(flush_ok, sel) ==
    /\ Callable
    /\ ctx.failed \/ ctx.output # NULL
    /\ ctx.failed => flush_ok
    /\ LET w1 == imapc_save_finish_flush(World("none"), flush_ok)
           r == imapc_save_finish_release(w1)
       IN  IF ~w1.ctx.failed
           THEN /\ Put(w1)
                /\ exists_received' = FALSE
                /\ exists_seen' = FALSE
                /\ selected' = sel
                /\ pc' = "append"
                /\ sctx_ret' = Pending
                /\ cmds' = [cmds EXCEPT !.append = @ + 1]
                /\ last' = Last("finish", Pending, "none", "none")
           ELSE /\ Put(r.w)
                /\ last' = Last("finish", r.ret,
                                IF ~ctx.failed THEN "flush"
                                ELSE IF last.op = "cancel" THEN "after_cancel"
                                ELSE "failed_before",
                                r.w.error)
                /\ ~sel
                /\ UNCHANGED <<exists_received, exists_seen, selected, pc,
                               sctx_ret, cmds>>
    /\ UNCHANGED <<t_save_ctx, changes, changes_before, auth_failed, precommit, cb, seen>>

(***************************************************************************)
(* What imapc_mailbox_run() dispatches while a loop spins.                 *)
(***************************************************************************)
ExistsReceived ==
    /\ pc # "idle" /\ sctx_ret = Pending
    /\ exists_received' = TRUE
    /\ exists_seen' = (pc = "append")
    /\ UNCHANGED selected
    /\ UNCHANGED <<t_save_ctx, ctx, trans, fds, mail, changes, changes_before, auth_failed,
                   pc, sctx_ret, cmds, precommit, last, cb, seen>>

SelectedChanges ==
    /\ pc = "append" /\ sctx_ret = Pending
    /\ selected' = ~selected
    /\ UNCHANGED <<t_save_ctx, ctx, trans, fds, mail, changes, changes_before,
                   exists_received, auth_failed, pc, sctx_ret, cmds,
                   precommit, last, cb, seen, exists_seen>>

AuthFails ==
    /\ t_save_ctx = "none" \/ (pc # "idle" /\ sctx_ret = Pending)
    /\ ~auth_failed
    /\ auth_failed' = TRUE
    /\ UNCHANGED <<t_save_ctx, ctx, trans, fds, mail, changes, changes_before,
                   exists_received, selected, pc, sctx_ret, cmds, precommit, last, cb,
                   seen, exists_seen>>

SaveCallback(reply) ==
    /\ pc = "append" /\ sctx_ret = Pending
    /\ LET r == imapc_save_callback(World(last.error), reply, auth_failed)
       IN  /\ Put(r.w)
           /\ sctx_ret' = r.ret
           /\ cb' = [cmd |-> "APPEND", state |-> reply.state, err |-> r.err,
                     auth |-> auth_failed,
                     code |-> ReplyCode("APPEND", reply)]
           /\ last' = [last EXCEPT !.cause = FailCause("append", reply),
                                   !.error = r.w.error]
    /\ seen' = IF reply.state = "OK" THEN Observe("APPEND", reply) ELSE seen
    /\ UNCHANGED <<t_save_ctx, changes, changes_before, exists_received, selected, auth_failed, pc,
                   cmds, precommit, exists_seen>>

\* imapc_save_finish() after imapc_save_append() returned append_ret
FinishReturn(append_ret) ==
    LET c1 == imapc_save_finish_append_ret(ctx, append_ret)
        r == imapc_save_finish_release([World(last.error) EXCEPT !.ctx = c1])
    IN  /\ Put(r.w)
        /\ pc' = "idle"
        /\ sctx_ret' = 0
        /\ cb' = NoCb
        /\ last' = [last EXCEPT !.ret = r.ret]

\* imapc_save_append() after its first loop
AppendLoopExit ==
    /\ pc = "append" /\ sctx_ret # Pending
    /\ IF imapc_save_append_needs_noop(sctx_ret, selected, exists_received)
       THEN /\ pc' = "noop"
            /\ sctx_ret' = Pending
            /\ cb' = NoCb
            /\ UNCHANGED <<ctx, trans, fds, mail, last>>
       ELSE FinishReturn(sctx_ret)
    /\ exists_seen' = FALSE
    /\ selected' = FALSE
    /\ UNCHANGED <<t_save_ctx, changes, changes_before, exists_received, auth_failed, cmds,
                   precommit, seen>>

NoopCallback(reply) ==
    /\ pc = "noop" /\ sctx_ret = Pending
    /\ sctx_ret' = imapc_save_noop_callback(reply)
    /\ cb' = [cmd |-> "NOOP", state |-> reply.state, err |-> "none",
              auth |-> auth_failed, code |-> NoCb.code]
    /\ UNCHANGED <<t_save_ctx, ctx, trans, fds, mail, changes, changes_before,
                   exists_received, selected, auth_failed, pc, cmds, precommit, last,
                   seen, exists_seen>>

NoopLoopExit ==
    /\ pc = "noop" /\ sctx_ret # Pending
    /\ FinishReturn(sctx_ret)
    /\ UNCHANGED <<t_save_ctx, changes, changes_before, exists_received, selected,
                   auth_failed, cmds, precommit, seen, exists_seen>>

(***************************************************************************)
(* imapc_save_cancel()                                                     *)
(***************************************************************************)
Cancel ==
    /\ Callable
    /\ Put(imapc_save_cancel(World("none")))
    /\ last' = Last("cancel", 0,
                    IF last.op = "finish" THEN "after_finish" ELSE "none",
                    "none")
    /\ UNCHANGED <<t_save_ctx, changes, changes_before, exists_received, selected, auth_failed, pc,
                   sctx_ret, cmds, precommit, cb, seen, exists_seen>>

(***************************************************************************)
(* imapc_copy(): source and destination on one storage.                    *)
(***************************************************************************)
\* what imapc_copy() found of its source mail
SourceState(expunged, mapped) ==
    IF expunged THEN "expunged" ELSE IF ~mapped THEN "unmapped" ELSE "none"

Copy(expunged, mapped) ==
    /\ Callable
    /\ ctx.fd = NoFd
    /\ IF imapc_copy_source_gone(expunged, mapped)
       THEN /\ Put(imapc_copy_expunged(World("none")))
            /\ last' = Last("copy", -1, SourceState(expunged, mapped),
                            "expunged")
            /\ UNCHANGED <<pc, sctx_ret, cmds>>
       ELSE /\ cmds.copy < MaxCopies
            /\ cmds.append + cmds.copy < MaxCmds
            /\ pc' = "copy"
            /\ sctx_ret' = Pending
            /\ cmds' = [cmds EXCEPT !.copy = @ + 1]
            /\ last' = Last("copy", Pending, SourceState(expunged, mapped),
                            "none")
            /\ UNCHANGED <<ctx, trans, fds, mail>>
    /\ UNCHANGED <<t_save_ctx, changes, changes_before, exists_received, selected, auth_failed,
                   precommit, cb, seen, exists_seen>>

CopyCallback(reply) ==
    /\ pc = "copy" /\ sctx_ret = Pending
    /\ LET r == imapc_copy_callback(World(last.error), reply)
       IN  /\ Put(r.w)
           /\ sctx_ret' = r.ret
           /\ cb' = [cmd |-> "COPY", state |-> reply.state, err |-> r.err,
                     auth |-> auth_failed,
                     code |-> ReplyCode("COPY", reply)]
           /\ last' = [last EXCEPT !.cause = FailCause("copy", reply),
                                   !.error = r.w.error]
    /\ seen' = IF reply.state = "OK" THEN Observe("COPY", reply) ELSE seen
    /\ UNCHANGED <<t_save_ctx, changes, changes_before, exists_received, selected, auth_failed, pc,
                   cmds, precommit, exists_seen>>

CopyLoopExit ==
    /\ pc = "copy" /\ sctx_ret # Pending
    /\ ctx' = imapc_copy_return(ctx)
    /\ pc' = "idle"
    /\ sctx_ret' = 0
    /\ cb' = NoCb
    /\ last' = [last EXCEPT !.ret = sctx_ret]
    /\ UNCHANGED <<t_save_ctx, trans, fds, mail, changes, changes_before, exists_received, selected,
                   auth_failed, cmds, precommit, seen, exists_seen>>

(***************************************************************************)
(* imapc_copy() across storages: mail_storage_copy() takes over.           *)
(***************************************************************************)
CopyViaStorage ==
    /\ Callable
    /\ ctx.fd = NoFd
    /\ UNCHANGED <<last, t_save_ctx, ctx, trans, fds, mail, changes, changes_before,
                   exists_received, selected, auth_failed, pc, sctx_ret, cmds,
                   precommit, cb, seen, exists_seen>>

(***************************************************************************)
(* imapc_transaction_save_commit_pre(); i_assert(ctx->finished)            *)
(***************************************************************************)
CommitPre(prior) ==
    /\ Callable
    /\ ctx.finished
    /\ LET r == imapc_transaction_save_commit_pre(ctx, trans, prior)
       IN  /\ trans' = r.trans
           /\ changes' = r.changes
    /\ changes_before' = prior
    /\ precommit' = TRUE
    /\ last' = Last("commit_pre", 0, "none", "none")
    /\ UNCHANGED <<t_save_ctx, ctx, fds, mail, exists_received, selected, auth_failed,
                   pc, sctx_ret, cmds, cb, seen, exists_seen>>

(***************************************************************************)
(* imapc_transaction_save_commit_post() and                                *)
(* imapc_transaction_save_rollback()                                       *)
(***************************************************************************)
CommitPost ==
    /\ t_save_ctx = "live" /\ pc = "idle" /\ precommit
    /\ Put(imapc_transaction_save_rollback(World("none")))
    /\ t_save_ctx' = "freed"
    /\ last' = Last("commit_post", 0, "none", "none")
    /\ UNCHANGED <<changes, changes_before, exists_received, selected, auth_failed, pc, sctx_ret, cmds,
                   precommit, cb, seen, exists_seen>>

Rollback ==
    /\ t_save_ctx = "live" /\ pc = "idle"
    /\ Put(imapc_transaction_save_rollback(World("none")))
    /\ t_save_ctx' = "freed"
    /\ last' = Last("rollback", 0, "none", "none")
    /\ UNCHANGED <<changes, changes_before, exists_received, selected, auth_failed, pc, sctx_ret, cmds,
                   precommit, cb, seen, exists_seen>>

Next ==
    \/ Alloc
    \/ \E temp_ok \in BOOLEAN : Begin(temp_ok)
    \/ \E pump_ok \in BOOLEAN : Continue(pump_ok)
    \/ \E flush_ok \in BOOLEAN, sel \in BOOLEAN : Finish(flush_ok, sel)
    \/ ExistsReceived
    \/ SelectedChanges
    \/ AuthFails
    \/ \E reply \in Replies : SaveCallback(reply)
    \/ AppendLoopExit
    \/ \E reply \in NoopReplies : NoopCallback(reply)
    \/ NoopLoopExit
    \/ Cancel
    \/ \E expunged \in BOOLEAN, mapped \in BOOLEAN : Copy(expunged, mapped)
    \/ \E reply \in Replies : CopyCallback(reply)
    \/ CopyLoopExit
    \/ CopyViaStorage
    \/ \E prior \in PriorChanges : CommitPre(prior)
    \/ CommitPost
    \/ Rollback

Spec == Init /\ [][Next]_vars

\* The client dispatches a reply for every command it was given (a non-OK
\* one on timeout or disconnect), and a loop whose sentinel was written is
\* left.
Fairness ==
    /\ WF_vars(\E reply \in Replies : SaveCallback(reply))
    /\ WF_vars(AppendLoopExit)
    /\ WF_vars(\E reply \in NoopReplies : NoopCallback(reply))
    /\ WF_vars(NoopLoopExit)
    /\ WF_vars(\E reply \in Replies : CopyCallback(reply))
    /\ WF_vars(CopyLoopExit)

FairSpec == Spec /\ Fairness

(***************************************************************************)
(* Properties.                                                             *)
(***************************************************************************)
\* the sequence numbers of the rows the transaction appended
AppendedSeqs ==
    {InitialMessages + k : k \in 1..Len(trans.appends)}

\* C1: when exactly N commands (APPEND or UID COPY) of the transaction
\* received an OK reply, save_count is N (one increment per OK reply, none
\* for any other reply), nothing is expunged before commit_pre, and
\* commit_pre issues exactly N expunges, on last, last-1, ..., last-N+1 in
\* that order, last being the message count of the transaction view; these
\* are exactly the placeholder rows the transaction appended.
C1_SaveCountAndExpunges ==
    LET N == seen.ok
        last_seq == mail_index_view_get_messages_count(trans)
    IN  /\ ctx.save_count = N
        /\ Len(trans.appends) = N
        /\ ~precommit => trans.expunges = <<>>
        /\ precommit =>
              /\ trans.expunges = [i \in 1..N |-> last_seq - (i - 1)]
              /\ {trans.expunges[i] : i \in 1..N} = AppendedSeqs

\* commit_pre ran on a transaction in which an APPEND and a UID COPY were
\* both answered OK
C1_Witness ==
    /\ precommit
    /\ seen.ok = 2
    /\ cmds.copy = 1
    /\ trans.expunges = <<InitialMessages + 2, InitialMessages + 1>>

\* C2: once rollback or commit_post has run, no temp fd is owned by the
\* save context, it has no output stream, no input stream, no temp path and
\* no saved-UID array, and the context itself is freed; whether or not the
\* last save was finished, and whether it succeeded or failed.
C2_NothingRemains ==
    t_save_ctx = "freed" =>
        /\ last.op \in {"rollback", "commit_post"}
        /\ ctx.fd = NoFd
        /\ \A i \in DOMAIN fds : fds[i] # "ctx"
        /\ ctx.output = NULL
        /\ ctx.input = NULL
        /\ ctx.temp_path = NULL
        /\ ~ctx.uids_created

\* a rollback that found the last save unfinished, after an earlier save of
\* the transaction had succeeded
C2_Witness ==
    /\ t_save_ctx = "freed"
    /\ last.op = "rollback"
    /\ fds = <<"mail", "closed">>
    /\ ctx.failed

\* a callback of APPEND or UID COPY fires in this step
CallbackStep ==
    /\ pc \in {"append", "copy"}
    /\ sctx_ret = Pending
    /\ sctx_ret' # Pending

\* C3: once the save context has recorded a non-zero destination
\* UID-validity, no step changes it; an OK reply whose APPENDUID or COPYUID
\* code carries that validity adds its UID to the saved-UID set, and one
\* whose code carries another validity leaves the set as it was, while the
\* command still succeeds and a placeholder row, of UID 0, is still appended.
C3_ValidityNeverRewritten ==
    [][(t_save_ctx = "live" /\ ctx.dest_uid_validity # 0) =>
          /\ ctx'.dest_uid_validity = ctx.dest_uid_validity
          /\ (CallbackStep /\ cb'.code.code) =>
                /\ sctx_ret' = 0
                /\ ctx'.save_count = ctx.save_count + 1
                /\ Len(trans'.appends) = Len(trans.appends) + 1
                /\ IF cb'.code.validity = ctx.dest_uid_validity
                   THEN /\ RangeElems(ctx'.dest_saved_uids)
                             = RangeElems(ctx.dest_saved_uids)
                               \cup {cb'.code.uid}
                        /\ trans'.appends[Len(trans'.appends)] = cb'.code.uid
                   ELSE /\ ctx'.dest_saved_uids = ctx.dest_saved_uids
                        /\ trans'.appends[Len(trans'.appends)] = 0
      ]_vars

\* a reply carrying validity 8 was processed by a context that had recorded
\* validity 7
C3_Witness ==
    /\ pc \in {"append", "copy"}
    /\ cb.code.code
    /\ cb.code.validity = 8
    /\ ctx.dest_uid_validity = 7
    /\ sctx_ret = 0

\* C4: for every sequence of OK replies to APPEND that all carry an
\* APPENDUID code: the recorded UID-validity is the first one observed, the
\* saved-UID set holds the UIDs of the replies carrying that validity (all
\* of them when the validities agree), and every reply produced a
\* placeholder row.
C4_FirstObservedValidity ==
    (t_save_ctx = "live" /\ seen.coded_only /\ seen.ok > 0) =>
        /\ ctx.dest_uid_validity = seen.first
        /\ RangeElems(ctx.dest_saved_uids) = seen.uids
        /\ ctx.save_count = seen.ok
        /\ Len(trans.appends) = seen.ok

\* C5: failed is monotone: once it is true, it is true after every step
\* that leaves the save context alive.
C5_FailedMonotone ==
    [][(t_save_ctx = "live" /\ ctx.failed /\ t_save_ctx' = "live")
          => ctx'.failed]_vars

\* a further message was begun, with success, through a context whose
\* failed was set by an earlier message
C5_Witness ==
    /\ last.op = "begin"
    /\ last.ret = 0
    /\ ctx.failed
    /\ ctx.fd # NoFd

\* the failures an entry point observes
FailureCauses ==
    {"auth", "temp_fd", "pump", "flush", "append_rejected", "append_fatal",
     "expunged", "unmapped", "copy_rejected", "copy_fatal"}

\* C6: every failure observed by an entry point (begin rejected
\* by the auth-failure oracle, temp-file creation failure, pump error in
\* continue, spool flush error, rejected or fatal APPEND, expunged COPY
\* source, rejected or fatal UID COPY) sets failed, and the entry point that
\* observed it returns -1.
C6_EveryFailureSetsFailed ==
    (pc = "idle" /\ t_save_ctx = "live"
     /\ last.cause \in FailureCauses)
        => (ctx.failed /\ last.ret = -1)

\* C7: when the auth-failure oracle reports true for a non-OK reply to an
\* APPEND or a UID COPY, the result of the command is -1 and no error is
\* derived from the reply, neither the copy of the reply at parameter
\* severity nor the critical error.
C7_AuthFailurePreempts ==
    (cb.cmd \in {"APPEND", "COPY"} /\ cb.state # "OK" /\ cb.auth)
        => (sctx_ret = -1 /\ cb.err = "none")

\* C8: when an APPEND is answered NO and the auth-failure oracle is false,
\* the reply appends no placeholder row (save_count unchanged) and adds no
\* UID to the saved-UID set, finish returns -1 with failed set and the
\* storage error at parameter severity; and a commit_pre of a transaction
\* in which no command was answered OK issues no expunge and publishes no
\* saved UID.
C8_RejectedAppend ==
    [][/\ (pc = "append" /\ sctx_ret = Pending
           /\ cb'.state = "NO" /\ ~cb'.auth) =>
             /\ sctx_ret' = -1
             /\ last'.error = "params"
             /\ ctx'.save_count = ctx.save_count
             /\ ctx'.dest_saved_uids = ctx.dest_saved_uids
             /\ trans' = trans
       /\ (pc = "append" /\ cb.state = "NO" /\ ~cb.auth) =>
             /\ pc' = "idle"
             /\ last'.op = "finish"
             /\ last'.ret = -1
             /\ last'.error = "params"
             /\ ctx'.failed
             /\ ctx'.save_count = ctx.save_count
             /\ ctx'.dest_saved_uids = ctx.dest_saved_uids
             /\ trans' = trans
       /\ (precommit' /\ seen'.ok = 0) =>
             /\ trans'.expunges = <<>>
             /\ changes' = changes_before'
      ]_vars

\* finish has returned from an APPEND that was answered NO while the oracle
\* was false
C8_Witness ==
    /\ pc = "idle"
    /\ last.op = "finish"
    /\ last.cause = "append_rejected"
    /\ last.error = "params"
    /\ last.ret = -1
    /\ ctx.failed
    /\ ~auth_failed

\* C9: when the APPEND has completed, the NOOP is submitted if and only if
\* the APPEND was accepted, the mailbox is selected and no EXISTS arrived
\* since the APPEND was issued; a NOOP is submitted nowhere else, and once
\* it completes finish returns; whatever the reply to the NOOP, finish
\* returns 0 and save_count and the saved-UID set are what the APPEND left.
C9_NoopAfterAppend ==
    [][/\ (pc = "append" /\ sctx_ret # Pending) =>
             ((pc' = "noop") <=>
                 (cb.state = "OK" /\ selected /\ ~exists_seen))
       /\ (pc # "noop" /\ pc' = "noop") =>
             (pc = "append" /\ sctx_ret # Pending)
       /\ pc = "noop" =>
             /\ ctx'.save_count = ctx.save_count
             /\ ctx'.dest_saved_uids = ctx.dest_saved_uids
             /\ trans' = trans
             /\ IF sctx_ret = Pending
                THEN pc' = "noop" /\ sctx_ret' \in {Pending, 0}
                ELSE pc' = "idle" /\ last'.op = "finish" /\ last'.ret = 0
      ]_vars

\* the NOOP that followed an accepted APPEND was answered BAD
C9_Witness ==
    /\ pc = "noop"
    /\ cb.cmd = "NOOP"
    /\ cb.state = "BAD"
    /\ sctx_ret = 0

\* C10: when finish returns, on whichever path, the output stream, the
\* input stream and the temp path are released and the save context holds
\* no temp fd, and finish returns 0 if and only if failed is false; an
\* APPEND is pending only with failed false, so one is submitted only when
\* failed is still false after the spool flush.
C10_FinishReleases ==
    /\ (pc = "idle" /\ last.op = "finish") =>
          /\ ctx.output = NULL
          /\ ctx.input = NULL
          /\ ctx.temp_path = NULL
          /\ ctx.fd = NoFd
          /\ \A i \in DOMAIN fds : fds[i] # "ctx"
          /\ ctx.finished
          /\ last.ret \in {0, -1}
          /\ last.ret = 0 <=> ~ctx.failed
    /\ (pc = "append" /\ sctx_ret = Pending) => ~ctx.failed

\* finish has returned failure from a spool flush error
C10_Witness ==
    /\ pc = "idle"
    /\ last.op = "finish"
    /\ last.cause = "flush"
    /\ last.ret = -1
    /\ fds # <<>>

\* C11: a cancel leaves the context failed and finished, with no fd and no
\* streams; a finish that follows it changes nothing of the context, of
\* the temp fds, of the index transaction or of the destination mail,
\* submits no command and returns -1; and a cancel that follows a finish
\* only sets failed: it closes no fd and submits no command.
C11_CancelThenFinish ==
    [][/\ last'.op = "cancel" =>
             /\ ctx'.failed /\ ctx'.finished
             /\ ctx'.fd = NoFd
             /\ ctx'.output = NULL /\ ctx'.input = NULL
             /\ ctx'.temp_path = NULL
             /\ ctx'.save_count = ctx.save_count
             /\ ctx'.dest_saved_uids = ctx.dest_saved_uids
             /\ pc' = "idle" /\ cmds' = cmds
       /\ (last.op = "cancel" /\ last'.op = "finish") =>
             /\ ctx' = ctx
             /\ fds' = fds /\ trans' = trans /\ mail' = mail
             /\ pc' = "idle" /\ cmds' = cmds
             /\ last'.ret = -1
       /\ (pc = "idle" /\ last.op = "finish" /\ last'.op = "cancel") =>
             /\ ctx' = [ctx EXCEPT !.failed = TRUE]
             /\ fds' = fds /\ trans' = trans /\ mail' = mail
      ]_vars

\* finish has returned after a cancel that had closed the temp fd of a begun
\* message
C11_Witness ==
    /\ pc = "idle"
    /\ last.op = "finish"
    /\ last.cause = "after_cancel"
    /\ fds = <<"closed">>
    /\ ctx.save_count = 0

\* C12: commit_pre publishes by appending: when the saved-UID set of the
\* context is non-empty, the changes afterwards carry the destination
\* UID-validity of the context and what their saved UIDs held before
\* followed by the saved-UID set; when no UID was recorded, the changes are
\* what they were.  commit_pre leaves the context as it was: its saved-UID
\* set, UID-validity, failed and finished.
C12_CommitPrePublishes ==
    [][(~precommit /\ precommit') =>
          /\ IF RangeElems(ctx.dest_saved_uids) # {}
             THEN /\ changes'.uid_validity = ctx.dest_uid_validity
                  /\ changes'.saved_uids
                        = changes_before'.saved_uids \o ctx.dest_saved_uids
             ELSE changes' = changes_before'
          /\ ctx' = ctx
      ]_vars

\* commit_pre has published the UIDs 1 and 2 behind a range the changes held
C12_Witness ==
    /\ precommit
    /\ changes_before.saved_uids = <<<<9, 9>>>>
    /\ changes = [uid_validity |-> 7, saved_uids |-> <<<<9, 9>>, <<1, 2>>>>]

\* C13: when imapc_copy() on one storage finds its source mail expunged, or
\* its UID missing from the source's UID map, it returns -1 with the
\* expunged-source storage error and with finished set, having submitted no
\* UID COPY and appended no placeholder row (save_count unchanged).
C13_ExpungedSource ==
    [][(last'.op = "copy" /\ last'.cause \in {"expunged", "unmapped"}) =>
          /\ pc' = "idle"
          /\ last'.ret = -1
          /\ last'.error = "expunged"
          /\ cmds' = cmds
          /\ trans' = trans
          /\ ctx'.save_count = ctx.save_count
          /\ ctx'.dest_saved_uids = ctx.dest_saved_uids
          /\ ctx'.finished
      ]_vars

\* after one accepted save, a copy whose source UID is not mapped returned
C13_Witness ==
    /\ pc = "idle"
    /\ last = Last("copy", -1, "unmapped", "expunged")
    /\ ctx.save_count = 1
    /\ ctx.finished
    /\ cmds.copy = 0

\* the UID an OK reply yields to a context: that of its response code, when
\* it has one and the context has recorded no other UID-validity; else 0
YieldedUid(c, code) ==
    IF code.code /\ c.dest_uid_validity \in {0, code.validity}
    THEN code.uid ELSE 0

\* C14: a copy on one storage of a mapped, unexpunged source submits one
\* UID COPY and does not return, nor submit anything else, before its
\* reply; an OK reply appends exactly one placeholder row, carrying the
\* destination UID the COPYUID code yields (else 0), adds that UID to the
\* saved-UID set and makes copy return 0; any other reply appends nothing
\* and makes copy return -1; finished is set when copy returns, either way.
C14_SameBackendCopy ==
    [][/\ (pc = "idle" /\ last' # last
           /\ last'.op = "copy" /\ last'.cause = "none") =>
             /\ pc' = "copy" /\ sctx_ret' = Pending
             /\ cmds' = [cmds EXCEPT !.copy = @ + 1]
             /\ ctx' = ctx /\ trans' = trans
       /\ (pc = "copy" /\ sctx_ret = Pending) =>
             /\ pc' = "copy" /\ cmds' = cmds
             /\ sctx_ret' # Pending =>
                   IF cb'.state = "OK"
                   THEN LET u == YieldedUid(ctx, cb'.code)
                        IN  /\ sctx_ret' = 0
                            /\ trans'.appends = Append(trans.appends, u)
                            /\ ctx'.save_count = ctx.save_count + 1
                            /\ RangeElems(ctx'.dest_saved_uids)
                                 = RangeElems(ctx.dest_saved_uids)
                                   \cup (IF u = 0 THEN {} ELSE {u})
                   ELSE /\ sctx_ret' = -1
                        /\ trans' = trans
                        /\ ctx' = ctx
       /\ (pc = "copy" /\ sctx_ret # Pending) =>
             /\ pc' = "idle"
             /\ last'.op = "copy" /\ last'.ret = sctx_ret
             /\ ctx' = [ctx EXCEPT !.finished = TRUE]
             /\ trans' = trans /\ cmds' = cmds
      ]_vars

\* a copy answered OK [COPYUID 7 5 1] has returned 0
C14_Witness ==
    /\ pc = "idle"
    /\ last.op = "copy" /\ last.ret = 0
    /\ trans.appends = <<1>>
    /\ ctx.dest_saved_uids = <<<<1, 1>>>>
    /\ ctx.dest_uid_validity = 7
    /\ ctx.finished

\* C15: an OK reply to APPEND whose APPENDUID code has a number for the
\* UID-validity and something else (a range with ':' included) for the UID
\* leaves the UID-validity of the context and its saved-UID set as they
\* were, and still appends a placeholder row of UID 0: save_count is
\* incremented and the command succeeds.
C15_NonNumericUid ==
    [][(pc = "append" /\ sctx_ret = Pending /\ cb'.code.no_uid) =>
          /\ ctx'.dest_uid_validity = ctx.dest_uid_validity
          /\ ctx'.dest_saved_uids = ctx.dest_saved_uids
          /\ trans'.appends = Append(trans.appends, 0)
          /\ ctx'.save_count = ctx.save_count + 1
          /\ sctx_ret' = 0
      ]_vars

\* finish is inside imapc_save_append(), in the loop of the APPEND or in
\* that of the NOOP
InSaveLoop == pc \in {"append", "noop"}

\* C16: once finish has submitted an APPEND it does not return, nor submit
\* the NOOP, before the callback of the APPEND has fired, and once the NOOP
\* is submitted it does not return before the NOOP's callback has fired;
\* the callback of the command writes 0 or -1 to the sentinel, nothing else
\* writes it, and once it is written the loop is left, so no command's
\* callback writes twice; and when the client dispatches a reply for every
\* command, every finish that submitted an APPEND returns.
C16_FinishWaitsForCallback ==
    /\ [][InSaveLoop =>
             /\ sctx_ret = Pending => pc' = pc
             /\ (cb.cmd = "NONE" /\ cb'.cmd # "NONE") =>
                   /\ sctx_ret = Pending
                   /\ sctx_ret' \in {0, -1}
                   /\ cb'.cmd = IF pc = "append" THEN "APPEND" ELSE "NOOP"
             /\ (pc' = pc /\ cb' = cb) => sctx_ret' = sctx_ret
             /\ sctx_ret # Pending =>
                   /\ cb.cmd # "NONE"
                   /\ pc' # pc
                   /\ cb'.cmd = "NONE"
                   /\ pc' = "idle" =>
                         (last'.op = "finish" /\ last'.ret \in {0, -1})
         ]_vars
    /\ InSaveLoop ~> (pc = "idle" /\ last.op = "finish")

\* the callback of the NOOP that followed the second APPEND of a
\* transaction has fired, and finish has not returned yet
C16_Witness ==
    /\ pc = "noop"
    /\ cb.cmd = "NOOP"
    /\ sctx_ret = 0
    /\ cmds.append = 2
    /\ last.ret = Pending

\* C17: a temp fd has one owner at every point: the one the context holds
\* is the context's, from begin and while the APPEND is pending; an OK
\* reply hands it to the stream of the destination mail and leaves the
\* context without fd; an fd that was not handed over is closed when finish
\* returns; no fd is closed twice, closed under the destination mail, or
\* held by the context and the destination mail at once.
C17_OneOwner ==
    /\ \A i \in DOMAIN fds :
          /\ fds[i] \in {"ctx", "mail", "closed"}
          /\ fds[i] = "ctx" <=> ctx.fd = i
    /\ ctx.fd # NoFd => ctx.fd \in DOMAIN fds
    /\ mail.stream_fd # NoFd =>
          /\ mail.stream_fd # ctx.fd
          /\ fds[mail.stream_fd] = "mail"
    /\ (last.op = "begin" /\ last.ret = 0) => ctx.fd = Len(fds)
    /\ (pc = "append" /\ sctx_ret = Pending) => ctx.fd = Len(fds)
    /\ (pc = "append" /\ sctx_ret = 0) =>
          (ctx.fd = NoFd /\ mail.stream_fd = Len(fds))
    /\ (pc = "append" /\ sctx_ret = -1) => ctx.fd = Len(fds)
    /\ (pc = "idle" /\ last.op = "finish" /\ fds # <<>>) =>
          fds[Len(fds)] = IF mail.stream_fd = Len(fds) THEN "mail"
                          ELSE "closed"

\* the second temp fd of a transaction was handed to the destination mail,
\* as the first had been, and finish has not returned yet
C17_Witness ==
    /\ pc = "append"
    /\ sctx_ret = 0
    /\ fds = <<"mail", "mail">>
    /\ mail.stream_fd = 2
    /\ ctx.fd = NoFd

\* C18: in every state between two operations, and wherever a loop of the
\* APPEND or of the NOOP waits for its reply, the temp fd and the temp path
\* of the context are both present or both absent.
C18_FdAndPathTogether ==
    (pc = "idle" \/ (InSaveLoop /\ sctx_ret = Pending)) =>
        (ctx.fd = NoFd <=> ctx.temp_path = NULL)

\* s is a prefix of t
IsPrefix(s, t) == Len(s) <= Len(t) /\ \A i \in 1..Len(s) : s[i] = t[i]

\* C19: once failed is set on the context of a transaction, by a save that
\* failed or was cancelled, every continue and every finish through that
\* context returns -1 and no APPEND is submitted any more, while the
\* placeholder rows and the saved UIDs the transaction has are kept; and
\* once the auth-failure oracle has rejected a begin, it rejects every
\* later one.
C19_FailedContextFailsLaterSaves ==
    [][/\ (t_save_ctx = "live" /\ ctx.failed) =>
             /\ ~InSaveLoop /\ ~InSaveLoop'
             /\ cmds'.append = cmds.append
             /\ last'.op \in {"continue", "finish"} => last'.ret = -1
             /\ t_save_ctx' = "live" =>
                   /\ IsPrefix(trans.appends, trans'.appends)
                   /\ RangeElems(ctx.dest_saved_uids)
                         \subseteq RangeElems(ctx'.dest_saved_uids)
                   /\ ctx'.save_count >= ctx.save_count
       /\ (pc = "idle" /\ last.op = "begin" /\ last.cause = "auth"
           /\ last'.op = "begin") => last'.ret = -1
      ]_vars

\* after one accepted save, a second message was begun, its pump failed,
\* and its finish has returned -1 without an APPEND
C19_Witness ==
    /\ pc = "idle"
    /\ last.op = "finish" /\ last.ret = -1
    /\ last.cause = "failed_before"
    /\ fds = <<"mail", "closed">>
    /\ cmds.append = 1
    /\ Len(trans.appends) = 1

\* C20: whenever the saved-UID set of the context is non-empty its
\* destination UID-validity is non-zero, so that commit_pre never publishes
\* saved UIDs together with a UID-validity of 0.
C20_SavedUidsHaveValidity ==
    /\ (t_save_ctx = "live" /\ RangeElems(ctx.dest_saved_uids) # {})
          => ctx.dest_uid_validity # 0
    /\ (precommit /\ changes.saved_uids # changes_before.saved_uids)
          => changes.uid_validity # 0

====
